---- MODULE Spec2Model ----
(***************************************************************************)
(* Model of OutputBuffer (src/OutputBuffer.py) and of the pip installer    *)
(* (src/_install_pip_package.py).                                          *)
(*                                                                         *)
(* A text is a sequence of characters; a fixed piece of a format string is *)
(* kept as one element.  A stream is the sequence of the writes it has     *)
(* received; every write is the text handed to print(), as the stream's    *)
(* error handler encodes it, followed by the line end print() adds.        *)
(***************************************************************************)
EXTENDS Integers, Sequences, FiniteSets, TLC

VARIABLES
    messages,        \* OutputBuffer.messages
    stdout,          \* writes received by sys.stdout
    stderr,          \* writes received by sys.stderr
    pc,              \* position of the caller / of _install_pip_package
    request,         \* the installation request the script makes
    package_name,    \* arguments and locals of the running installer call
    import_name,
    timeout_sec,
    proc,            \* the CompletedProcess of subprocess.run (result)
    ret,             \* how the last installer call ended
    path,            \* terminal path of the last installer call
    upgradeOutcome,  \* what the self-upgrade child did in this call
    installOutcome,  \* what the install child did in this call
    importOutcome,   \* what __import__ did in this call
    emitted,         \* history: texts handed to OutputBuffer.print, in order
    dests,           \* history: the to_stderr flag of each of these calls
    lastOp,          \* history: the last caller-level operation
    prevOp,          \* history: the caller-level operation before it
    pre,             \* history: streams and buffer when lastOp started
    emitRaised,      \* history: whether the last caller-level print raised
    nEmits,          \* caller-level print calls so far
    nReplays,        \* caller-level flush_to_stderr calls so far
    PROXY_URL,       \* the module's PROXY_URL
    os_environ,      \* os.environ of the running process
    child_env,       \* env given to subprocess.run of the main install
    threads          \* two threads of one script inside print and flush_to_stderr

rec   == <<messages, stdout, stderr>>
call  == <<pc, request, package_name, import_name, timeout_sec, proc, ret, path,
           upgradeOutcome, installOutcome, importOutcome>>
hist  == <<emitted, dests, lastOp, prevOp, pre, emitRaised,
           nEmits, nReplays>>
envv  == <<PROXY_URL, os_environ, child_env>>
vars  == <<rec, call, hist, envv, threads>>

----------------------------------------------------------------------------
(* Bounds of the model *)

MaxEmits   == 1      \* caller-level OutputBuffer.print calls
MaxReplays == 2      \* caller-level OutputBuffer.flush_to_stderr calls
MaxMessages == 6     \* length of OutputBuffer.messages
MaxThreadPrints == 2 \* OutputBuffer.print calls of the second thread

----------------------------------------------------------------------------
(* Texts and streams *)

NL == "\n"

\* "="*80
BORDER == "================================================================================"

\* Characters the encoding of sys.stdout has no code for.
Unencodable == {"U+00E9"}

\* The placeholder an error handler that replaces puts for such a character.
Placeholder == "\\xe9"

\* errors='strict' (the default of sys.stdout): encoding the text raises
\* UnicodeEncodeError when a character has no code.
StrictEncodable(text) == \A i \in 1..Len(text) : text[i] \notin Unencodable

\* errors='backslashreplace' (the default of sys.stderr).
BackslashReplace(text) ==
    [i \in 1..Len(text) |-> IF text[i] \in Unencodable THEN Placeholder ELSE text[i]]

\* print(text, file=sys.stderr): one write, never an encoding error.
PrintStderr(io, text) ==
    [io EXCEPT !.stderr = Append(@, BackslashReplace(text) \o <<NL>>)]

\* print(text) on sys.stdout when the text can be encoded.
PrintStdout(io, text) ==
    [io EXCEPT !.stdout = Append(@, text \o <<NL>>)]

IO == [messages |-> messages, stdout |-> stdout, stderr |-> stderr]

SetIO(io) ==
    /\ messages' = io.messages
    /\ stdout'   = io.stdout
    /\ stderr'   = io.stderr

RECURSIVE PrintAllStderr(_, _)
PrintAllStderr(io, msgs) ==
    IF msgs = <<>> THEN io
    ELSE PrintAllStderr(PrintStderr(io, Head(msgs)), Tail(msgs))

----------------------------------------------------------------------------
(* OutputBuffer *)

\* OutputBuffer.print that keeps only the stdout messages in the buffer.
OutputBuffer_print_StdoutOnly(io, message, to_stderr) ==
    IF to_stderr
    THEN [io |-> PrintStderr(io, message), raised |-> FALSE]
    ELSE LET io1 == [io EXCEPT !.messages = Append(@, message)]
         IN  IF StrictEncodable(message)
             THEN [io |-> PrintStdout(io1, message), raised |-> FALSE]
             ELSE [io |-> io1, raised |-> TRUE]

\* OutputBuffer.print that sends every message to the primary channel.
OutputBuffer_print_IgnoresFlag(io, message, to_stderr) ==
    LET io1 == [io EXCEPT !.messages = Append(@, message)]
    IN  IF StrictEncodable(message)
        THEN [io |-> PrintStdout(io1, message), raised |-> FALSE]
        ELSE [io |-> io1, raised |-> TRUE]

\* OutputBuffer.print: the result is the new buffer and streams, and whether
\* the call raised (UnicodeEncodeError of the strict stdout).
OutputBuffer_print(io, message, to_stderr) ==
    LET msg_str == message
        io1     == [io EXCEPT !.messages = Append(@, msg_str)]
    IN  IF to_stderr
        THEN [io |-> PrintStderr(io1, msg_str), raised |-> FALSE]
        ELSE IF StrictEncodable(msg_str)
             THEN [io |-> PrintStdout(io1, msg_str), raised |-> FALSE]
             ELSE [io |-> io1, raised |-> TRUE]

HeaderBlock ==
    << <<NL, BORDER>>,
       <<"[OUTPUT BUFFER] Dumping all stdout messages to stderr due to error:">>,
       <<BORDER>> >>

FooterBlock == << <<BORDER, NL>> >>

\* flush_to_stderr without the test for an empty buffer.
flush_to_stderr_NoGuard(io) ==
    PrintAllStderr(
        PrintAllStderr(PrintAllStderr(io, HeaderBlock), io.messages),
        FooterBlock)

\* flush_to_stderr that prints the footer before the messages.
flush_to_stderr_FooterFirst(io) ==
    IF io.messages /= <<>>
    THEN PrintAllStderr(
             PrintAllStderr(PrintAllStderr(io, HeaderBlock), FooterBlock),
             io.messages)
    ELSE io

\* flush_to_stderr that empties the buffer once it is replayed.
flush_to_stderr_Clears(io) ==
    IF io.messages /= <<>>
    THEN [PrintAllStderr(
             PrintAllStderr(PrintAllStderr(io, HeaderBlock), io.messages),
             FooterBlock) EXCEPT !.messages = <<>>]
    ELSE io

\* OutputBuffer.flush_to_stderr
flush_to_stderr(io) ==
    IF io.messages /= <<>>
    THEN PrintAllStderr(
             PrintAllStderr(PrintAllStderr(io, HeaderBlock), io.messages),
             FooterBlock)
    ELSE io

----------------------------------------------------------------------------
(* _install_pip_package: texts *)

\* The most lines one call appends to the buffer: the print calls of lines
\* 126, 168, 172, 176 and 183.  A call is started only when they fit.
CallLines == 5

\* the bound of result.stdout[:4000] and result.stderr[:4000]
TruncLimit == 4000

DefaultTimeout == 300

\* a slice that keeps one character too many
Take_OneMore(s, n) == IF Len(s) <= n THEN s ELSE SubSeq(s, 1, n + 1)

\* s[:n]
Take(s, n) == IF Len(s) <= n THEN s ELSE SubSeq(s, 1, n)

FmtAttempt(pkg, imp) ==
    <<"[PIP] Attempting to install/upgrade package: ">> \o pkg
        \o <<" (import as '">> \o imp \o <<"')">>

FmtReturnCode(rc) == <<"[PIP] Return code: ", ToString(rc)>>

FmtStdout(s) ==
    <<"[PIP][stdout]", NL>> \o Take(s, TruncLimit) \o <<NL, "--- end stdout ---">>

FmtStderr(s) ==
    <<"[PIP][stderr]", NL>> \o Take(s, TruncLimit) \o <<NL, "--- end stderr ---">>

FmtSuccess(imp) ==
    <<"[PIP] Successfully installed/upgraded and imported '">> \o imp \o <<"'.">>

FmtImportFail(imp) ==
    <<"[PIP][ERROR]", " Installation succeeded, but failed to import '">>
        \o imp \o <<"'.">>

FmtInstallFail(pkg) ==
    <<"[PIP][ERROR]", " Failed to install/upgrade '">> \o pkg \o <<"'.">>

\* the timeout message without the duration
FmtTimeout_NoDuration(t, pkg) ==
    <<"[PIP][ERROR]", " Timeout while installing/upgrading '">> \o pkg \o <<"'.">>

FmtTimeout(t, pkg) ==
    <<"[PIP][ERROR]", " Timeout (", ToString(t), "s) while installing/upgrading '">>
        \o pkg \o <<"'.">>

FmtUnexpected(pkg, e) ==
    <<"[PIP][ERROR]", " Unexpected error while installing/upgrading '">>
        \o pkg \o <<"': ">> \o e

\* what traceback.print_exc() writes to sys.stderr
FmtTraceback(e) == <<"Traceback (most recent call last):", NL>> \o e

\* str(e) of the exceptions the try block can see
CalledProcessErrorText(rc) ==
    <<"Command returned non-zero exit status ", ToString(rc), ".">>
OSErrorText == <<"[Errno 13] Permission denied">>
UnicodeEncodeErrorText == <<"codec can't encode character">>

----------------------------------------------------------------------------
(* _install_pip_package: inputs and outcomes of the environment *)

NoName == <<>>      \* import_name=None (or ""): falsy

\* The requests a script makes: every argument defaulted, every argument
\* given, and a package name the encoding of sys.stdout has no code for.
Requests ==
    { [package_name |-> <<"p">>, import_name |-> NoName,
       timeout_sec |-> DefaultTimeout],
      [package_name |-> <<"p">>, import_name |-> <<"m">>, timeout_sec |-> 5],
      [package_name |-> <<"U+00E9">>, import_name |-> NoName,
       timeout_sec |-> DefaultTimeout] }

CallerTexts  == { <<"a">>, <<"U+00E9">> }

ReturnCodes    == {0, 1}
CapturedStdout == { <<>>, <<"o">>, <<"U+00E9">> }
CapturedStderr == { <<>>, <<"x">> }

UpgradeOutcomes == {"ok", "nonzero", "oserror"}
LoadOutcomes    == {"ok", "missing", "broken", "exit"}

NoProc == [returncode |-> -1, stdout |-> <<>>, stderr |-> <<>>]

\* Environments: a value for each name, Unset for a name that is not set.
Unset == "(unset)"

ParentEnvs ==
    { [PATH |-> "/usr/bin", HTTP_PROXY |-> Unset, HTTPS_PROXY |-> Unset],
      [PATH |-> "/usr/bin", HTTP_PROXY |-> "http://old:3128",
       HTTPS_PROXY |-> Unset] }

ProxyUrls == {"", "http://proxy.company.com:8080"}

\* child_env before subprocess.run is reached
NotLaunched == [PATH |-> Unset, HTTP_PROXY |-> Unset, HTTPS_PROXY |-> Unset]

\* captured output of some length; the characters differ along the text
LongText(n) == [i \in 1..n |-> IF i % 3 = 0 THEN "c" ELSE IF i % 3 = 1 THEN "a" ELSE "b"]

LongStdout == { <<>>, LongText(TruncLimit), LongText(TruncLimit + 1) }
LongStderr == { <<>>, LongText(TruncLimit - 1), LongText(TruncLimit + 2) }

----------------------------------------------------------------------------
(* _install_pip_package: handlers *)

\* import_name that is left as it was given
default_import_name_AsGiven(imp, pkg) == imp

\* line 123: import_name = import_name or package_name
default_import_name(imp, pkg) == IF imp = NoName THEN pkg ELSE imp

\* the exit-code branch that reports through the buffer
ExitNonzeroBranch_Buffered(io, pkg) ==
    OutputBuffer_print(flush_to_stderr(io), FmtInstallFail(pkg), TRUE).io

\* lines 193-197: the install command failed
ExitNonzeroBranch(io, pkg) ==
    PrintStderr(flush_to_stderr(io), FmtInstallFail(pkg))

\* the import-failure branch that reports before it replays
ImportFailBranch_ReportFirst(io, imp) ==
    flush_to_stderr(PrintStderr(io, FmtImportFail(imp)))

\* lines 187-191: pip succeeded but the import fails
ImportFailBranch(io, imp) ==
    PrintStderr(flush_to_stderr(io), FmtImportFail(imp))

\* lines 199-204: except subprocess.TimeoutExpired
ExceptTimeoutExpired(io, t, pkg) ==
    PrintStderr(flush_to_stderr(io), FmtTimeout(t, pkg))

\* lines 206-212: except Exception as e
ExceptException(io, pkg, e) ==
    PrintStderr(
        PrintStderr(flush_to_stderr(io), FmtUnexpected(pkg, e)),
        FmtTraceback(e))

\* the child environment with only HTTP_PROXY set
child_environment_HttpOnly(environ, proxy) ==
    IF proxy /= ""
    THEN [child  |-> [environ EXCEPT !.HTTP_PROXY = proxy], parent |-> environ]
    ELSE [child |-> environ, parent |-> environ]

\* lines 152-156: env = os.environ.copy(), with both proxy variables set when
\* PROXY_URL is not empty.  The result is the copy and os.environ after it.
child_environment(environ, proxy) ==
    LET env == environ
    IN  IF proxy /= ""
        THEN [child  |-> [env EXCEPT !.HTTP_PROXY = proxy,
                                     !.HTTPS_PROXY = proxy],
              parent |-> environ]
        ELSE [child |-> env, parent |-> environ]

\* lines 152-164: the environment is built and handed to subprocess.run
LaunchEnv ==
    LET e == child_environment(os_environ, PROXY_URL)
    IN  /\ child_env' = e.child
        /\ os_environ' = e.parent
        /\ UNCHANGED PROXY_URL

\* _is_package_installed: "True", "False", or "raise" when __import__ raises
\* something that is no Exception (SystemExit, KeyboardInterrupt).
is_package_installed(load) ==
    CASE load = "ok"      -> "True"
      [] load = "missing" -> "False"
      [] load = "broken"  -> "False"
      [] load = "exit"    -> "raise"

\* A run of statements that print through the buffer: a statement after one
\* that raised is not executed.
Start(io, em, ds) ==
    [io |-> io, raised |-> FALSE, emitted |-> em, dests |-> ds]

Then(th, cond, message, to_stderr) ==
    IF th.raised \/ ~cond THEN th
    ELSE LET r == OutputBuffer_print(th.io, message, to_stderr)
         IN  [io |-> r.io, raised |-> r.raised,
              emitted |-> Append(th.emitted, message),
              dests |-> Append(th.dests, to_stderr)]

----------------------------------------------------------------------------
(* State machine *)

InitCore ==
    /\ messages = <<>>
    /\ stdout = <<>>
    /\ stderr = <<>>
    /\ pc = "idle"
    /\ request \in Requests
    /\ package_name = <<>>
    /\ import_name = <<>>
    /\ timeout_sec = DefaultTimeout
    /\ proc = NoProc
    /\ ret = "none"
    /\ path = "none"
    /\ upgradeOutcome = "none"
    /\ installOutcome = "none"
    /\ importOutcome = "none"
    /\ emitted = <<>>
    /\ dests = <<>>
    /\ lastOp = "none"
    /\ prevOp = "none"
    /\ pre = [messages |-> <<>>, stdout |-> <<>>, stderr |-> <<>>]
    /\ emitRaised = FALSE
    /\ nEmits = 0
    /\ nReplays = 0
    /\ child_env = NotLaunched

\* The script runs in one thread: nothing is inside print or flush_to_stderr
\* between two steps.
NoThreads ==
    [flush |-> [pc |-> "off", i |-> 0, start |-> 0, stop |-> 0],
     print |-> [pc |-> "off", message |-> <<>>, to_stderr |-> FALSE, calls |-> 0],
     seen  |-> {}]

\* The module as it is written: PROXY_URL = "" (line 43).
Init ==
    /\ InitCore
    /\ PROXY_URL = ""
    /\ os_environ = [PATH |-> "/usr/bin", HTTP_PROXY |-> Unset,
                     HTTPS_PROXY |-> Unset]
    /\ threads = NoThreads

\* The module with PROXY_URL edited as its comment invites, started in an
\* environment with or without a proxy of its own.
InitInstall ==
    /\ InitCore
    /\ PROXY_URL \in ProxyUrls
    /\ os_environ \in ParentEnvs
    /\ threads = NoThreads

\* A caller-level operation starts: remember what it started from.
Begin(op) ==
    /\ prevOp' = lastOp
    /\ lastOp' = op
    /\ pre' = IO

\* The installer call ends: by return True / return False ("true", "false")
\* or by an exception that leaves the function ("raised").
Finish(io, r, p) ==
    /\ SetIO(io)
    /\ pc' = "idle"
    /\ ret' = r
    /\ path' = p

\* output_buffer.print(message, to_stderr) called by the script
CallerEmit(message, to_stderr) ==
    /\ pc = "idle"
    /\ nEmits < MaxEmits
    /\ Len(messages) < MaxMessages
    /\ LET r == OutputBuffer_print(IO, message, to_stderr)
       IN  /\ SetIO(r.io)
           /\ emitRaised' = r.raised
    /\ emitted' = Append(emitted, message)
    /\ dests' = Append(dests, to_stderr)
    /\ Begin("emit")
    /\ nEmits' = nEmits + 1
    /\ UNCHANGED <<threads, call, nReplays, envv>>

\* output_buffer.flush_to_stderr() called by the script
CallerReplay ==
    /\ pc = "idle"
    /\ nReplays < MaxReplays
    /\ SetIO(flush_to_stderr(IO))
    /\ Begin("replay")
    /\ nReplays' = nReplays + 1
    /\ UNCHANGED <<threads, call, emitted, dests, emitRaised, nEmits, envv>>

\* _install_pip_package(pkg, imp, t), lines 122-127: the default of import_name
\* and the first log line, which is outside the try block.
InstallCall(pkg, imp, t) ==
    /\ pc = "idle"
    /\ request = [package_name |-> pkg, import_name |-> imp, timeout_sec |-> t]
    /\ Len(messages) + CallLines <= MaxMessages
    /\ LET nm == default_import_name(imp, pkg)
           th == Then(Start(IO, emitted, dests), TRUE, FmtAttempt(pkg, nm), FALSE)
       IN  /\ package_name' = pkg
           /\ import_name' = nm
           /\ timeout_sec' = t
           /\ emitted' = th.emitted
           /\ dests' = th.dests
           /\ IF th.raised
              THEN Finish(th.io, "raised", "RAISED")
              ELSE /\ SetIO(th.io)
                   /\ pc' = "upgrade"
                   /\ ret' = "none"
                   /\ path' = "none"
    /\ proc' = NoProc
    /\ upgradeOutcome' = "none"
    /\ installOutcome' = "none"
    /\ importOutcome' = "none"
    /\ Begin("install")
    /\ UNCHANGED <<threads, request, emitRaised, nEmits, nReplays, PROXY_URL, os_environ>>
    /\ child_env' = NotLaunched

\* lines 132-137: subprocess.check_call of the pip self-upgrade.  It raises
\* CalledProcessError on a non-zero exit and OSError when the child cannot be
\* launched; both are caught by except Exception.
SelfUpgrade(outcome) ==
    /\ pc = "upgrade"
    /\ upgradeOutcome' = outcome
    /\ CASE outcome = "ok" ->
              /\ pc' = "install"
              /\ UNCHANGED <<rec, ret, path>>
         [] outcome = "nonzero" ->
              Finish(ExceptException(IO, package_name, CalledProcessErrorText(1)),
                     "false", "EXCEPTION")
         [] outcome = "oserror" ->
              Finish(ExceptException(IO, package_name, OSErrorText),
                     "false", "EXCEPTION")
    /\ UNCHANGED <<threads, request, package_name, import_name, timeout_sec, proc,
                   installOutcome, importOutcome, hist, envv>>

\* lines 132-137: check_call is given no timeout; a self-upgrade child that
\* never exits blocks the call for good.
SelfUpgradeHangs ==
    /\ pc = "upgrade"
    /\ pc' = "blocked"
    /\ upgradeOutcome' = "hang"
    /\ UNCHANGED <<threads, rec, request, package_name, import_name, timeout_sec, proc, ret, path,
                   installOutcome, importOutcome, hist, envv>>

\* lines 159-165: the install child runs to its end within the timeout.
RunInstall(rc, out, err) ==
    /\ pc = "install"
    /\ installOutcome' = "exited"
    /\ proc' = [returncode |-> rc, stdout |-> out, stderr |-> err]
    /\ pc' = "log"
    /\ UNCHANGED <<threads, rec, request, package_name, import_name, timeout_sec, ret, path,
                   upgradeOutcome, importOutcome, hist>>
    /\ LaunchEnv

\* lines 159-165 and 199-204: subprocess.run raises TimeoutExpired.
RunInstallTimeout ==
    /\ pc = "install"
    /\ installOutcome' = "timeout"
    /\ Finish(ExceptTimeoutExpired(IO, timeout_sec, package_name),
              "false", "TIMEOUT")
    /\ UNCHANGED <<threads, request, package_name, import_name, timeout_sec, proc,
                   upgradeOutcome, importOutcome, hist>>
    /\ LaunchEnv

\* lines 159-165 and 206-212: subprocess.run raises OSError.
RunInstallFails ==
    /\ pc = "install"
    /\ installOutcome' = "oserror"
    /\ Finish(ExceptException(IO, package_name, OSErrorText),
              "false", "EXCEPTION")
    /\ UNCHANGED <<threads, request, package_name, import_name, timeout_sec, proc,
                   upgradeOutcome, importOutcome, hist>>
    /\ LaunchEnv

\* lines 167-180 and 192-197: log the results, then branch on the exit code.
LogResults ==
    /\ pc = "log"
    /\ LET th1 == Then(Start(IO, emitted, dests), TRUE,
                       FmtReturnCode(proc.returncode), FALSE)
           th2 == Then(th1, proc.stdout /= <<>>, FmtStdout(proc.stdout), FALSE)
           th3 == Then(th2, proc.stderr /= <<>>, FmtStderr(proc.stderr), TRUE)
       IN  /\ emitted' = th3.emitted
           /\ dests' = th3.dests
           /\ IF th3.raised
              THEN Finish(ExceptException(th3.io, package_name,
                                          UnicodeEncodeErrorText),
                          "false", "EXCEPTION")
              ELSE IF proc.returncode = 0
                   THEN /\ SetIO(th3.io)
                        /\ pc' = "verify"
                        /\ UNCHANGED <<ret, path>>
                   ELSE Finish(ExitNonzeroBranch(th3.io, package_name),
                               "false", "EXIT-NONZERO")
    /\ UNCHANGED <<threads, request, package_name, import_name, timeout_sec, proc,
                   upgradeOutcome, installOutcome, importOutcome,
                   lastOp, prevOp, pre, emitRaised,
                   nEmits, nReplays, envv>>

\* lines 180-191: the import check and its two branches.
VerifyImport(load) ==
    /\ pc = "verify"
    /\ importOutcome' = load
    /\ LET avail == is_package_installed(load)
           th    == Then(Start(IO, emitted, dests), TRUE, FmtSuccess(import_name), FALSE)
       IN  CASE avail = "True" ->
                  /\ emitted' = th.emitted
                  /\ dests' = th.dests
                  /\ IF th.raised
                     THEN Finish(ExceptException(th.io, package_name,
                                                 UnicodeEncodeErrorText),
                                 "false", "EXCEPTION")
                     ELSE Finish(th.io, "true", "IMPORT-OK")
             [] avail = "False" ->
                  /\ Finish(ImportFailBranch(IO, import_name),
                            "false", "IMPORT-FAIL")
                  /\ UNCHANGED <<emitted, dests>>
             [] avail = "raise" ->
                  /\ Finish(IO, "raised", "RAISED")
                  /\ UNCHANGED <<emitted, dests>>
    /\ UNCHANGED <<threads, request, package_name, import_name, timeout_sec, proc,
                   upgradeOutcome, installOutcome,
                   lastOp, prevOp, pre, emitRaised,
                   nEmits, nReplays, envv>>

Next ==
    \/ \E m \in CallerTexts, d \in BOOLEAN : CallerEmit(m, d)
    \/ CallerReplay
    \/ InstallCall(request.package_name, request.import_name,
                   request.timeout_sec)
    \/ \E o \in UpgradeOutcomes : SelfUpgrade(o)
    \/ SelfUpgradeHangs
    \/ \E rc \in ReturnCodes, o \in CapturedStdout, e \in CapturedStderr :
          RunInstall(rc, o, e)
    \/ RunInstallTimeout
    \/ RunInstallFails
    \/ LogResults
    \/ \E l \in LoadOutcomes : VerifyImport(l)

Spec == Init /\ [][Next]_vars

\* The program keeps running: a step that can be taken is taken.  A call
\* blocked in check_call has no step to take.
LiveSpec == Spec /\ WF_vars(Next)

\* One script that only installs, with the proxy configured or not and with
\* install children that print long outputs.
NextInstall ==
    \/ InstallCall(request.package_name, request.import_name,
                   request.timeout_sec)
    \/ \E o \in UpgradeOutcomes : SelfUpgrade(o)
    \/ SelfUpgradeHangs
    \/ \E rc \in ReturnCodes, o \in LongStdout, e \in LongStderr :
          RunInstall(rc, o, e)
    \/ RunInstallTimeout
    \/ RunInstallFails
    \/ LogResults
    \/ \E l \in LoadOutcomes : VerifyImport(l)

InstallSpec == InitInstall /\ [][NextInstall]_vars

\* A script with a second thread: one thread is in flush_to_stderr while the
\* other calls OutputBuffer.print.  Neither method takes a lock, so a thread
\* switch can fall between any two statements.  A print call of one line is
\* taken as one write to the stream.
ThreadsStart ==
    [flush |-> [pc |-> "test", i |-> 0, start |-> 0, stop |-> 0],
     print |-> [pc |-> "ready", message |-> <<>>, to_stderr |-> FALSE, calls |-> 0],
     seen  |-> {}]

InitThreads ==
    /\ InitCore
    /\ PROXY_URL = ""
    /\ os_environ = [PATH |-> "/usr/bin", HTTP_PROXY |-> Unset,
                     HTTPS_PROXY |-> Unset]
    /\ threads = ThreadsStart

\* flush_to_stderr, line 93: if self.messages
FlushTest ==
    /\ threads.flush.pc = "test"
    /\ threads' = [threads EXCEPT
                      !.flush = [pc    |-> IF messages /= <<>> THEN "header" ELSE "done",
                                 i     |-> 0,
                                 start |-> Len(stderr),
                                 stop  |-> Len(stderr)],
                      !.seen  = {messages}]
    /\ UNCHANGED <<rec, call, hist, envv>>

\* flush_to_stderr, lines 94-97: the three print calls of the header
FlushHeader ==
    /\ threads.flush.pc = "header"
    /\ SetIO(PrintStderr(IO, HeaderBlock[threads.flush.i + 1]))
    /\ threads' = IF threads.flush.i + 1 = Len(HeaderBlock)
                  THEN [threads EXCEPT !.flush.pc = "loop", !.flush.i = 0]
                  ELSE [threads EXCEPT !.flush.i = @ + 1]
    /\ UNCHANGED <<call, hist, envv>>

\* flush_to_stderr, lines 98-99: one turn of for msg in self.messages.  The
\* list iterator keeps an index and tests it against the length the list has
\* now, so it also yields what was appended since the loop began.
FlushLoop ==
    /\ threads.flush.pc = "loop"
    /\ IF threads.flush.i < Len(messages)
       THEN /\ SetIO(PrintStderr(IO, messages[threads.flush.i + 1]))
            /\ threads' = [threads EXCEPT !.flush.i = @ + 1]
       ELSE /\ UNCHANGED rec
            /\ threads' = [threads EXCEPT !.flush.pc = "footer"]
    /\ UNCHANGED <<call, hist, envv>>

\* flush_to_stderr, line 100: the footer
FlushFooter ==
    /\ threads.flush.pc = "footer"
    /\ SetIO(PrintAllStderr(IO, FooterBlock))
    /\ threads' = [threads EXCEPT !.flush.pc = "done",
                                  !.flush.stop = Len(stderr) + Len(FooterBlock)]
    /\ UNCHANGED <<call, hist, envv>>

\* OutputBuffer.print, lines 62-63: msg_str is appended to the buffer
PrintAppend(message, to_stderr) ==
    /\ threads.print.pc = "ready"
    /\ threads.print.calls < MaxThreadPrints
    /\ Len(messages) < MaxMessages
    /\ messages' = Append(messages, message)
    /\ threads' = [threads EXCEPT
                      !.print = [pc |-> "write", message |-> message,
                                 to_stderr |-> to_stderr, calls |-> @.calls + 1],
                      !.seen  = IF threads.flush.pc \in {"header", "loop", "footer"}
                                THEN @ \cup {Append(messages, message)}
                                ELSE @]
    /\ UNCHANGED <<stdout, stderr, call, hist, envv>>

\* OutputBuffer.print, lines 64-67: msg_str is written to the chosen stream;
\* the strict stdout raises for a text it cannot encode and writes nothing.
PrintWrite ==
    /\ threads.print.pc = "write"
    /\ IF threads.print.to_stderr
       THEN SetIO(PrintStderr(IO, threads.print.message))
       ELSE IF StrictEncodable(threads.print.message)
            THEN SetIO(PrintStdout(IO, threads.print.message))
            ELSE UNCHANGED rec
    /\ threads' = [threads EXCEPT !.print.pc = "ready"]
    /\ UNCHANGED <<call, hist, envv>>

NextThreads ==
    \/ FlushTest
    \/ FlushHeader
    \/ FlushLoop
    \/ FlushFooter
    \/ \E m \in CallerTexts, d \in BOOLEAN : PrintAppend(m, d)
    \/ PrintWrite

ThreadSpec == InitThreads /\ [][NextThreads]_vars

----------------------------------------------------------------------------
(* Vocabulary of the properties *)

Last(s) == s[Len(s)]

IsPrefix(s, t) == Len(s) <= Len(t) /\ SubSeq(t, 1, Len(s)) = s

\* s occurs in t as a run of consecutive elements
Contains(t, s) ==
    \E j \in 0..(Len(t) - Len(s)) : SubSeq(t, j + 1, j + Len(s)) = s

\* the write print(text, file=sys.stderr) leaves on the error channel
ErrLine(text) == BackslashReplace(text) \o <<NL>>

HeaderLines == [i \in 1..Len(HeaderBlock) |-> ErrLine(HeaderBlock[i])]
FooterLines == [i \in 1..Len(FooterBlock) |-> ErrLine(FooterBlock[i])]

\* one header block, every message of buf once and in order, one footer block
ReplayOf(buf) ==
    HeaderLines \o [i \in 1..Len(buf) |-> ErrLine(buf[i])] \o FooterLines

IsFatal(write) == write[1] = "[PIP][ERROR]"

\* an installer call has ended and nothing was done since
CallDone == lastOp = "install" /\ pc = "idle"

\* what the error channel received since the last caller-level operation began
ErrSince == SubSeq(stderr, Len(pre.stderr) + 1, Len(stderr))

FailurePaths == {"EXIT-NONZERO", "IMPORT-FAIL", "TIMEOUT", "EXCEPTION"}

\* the words by which the direct message of a failure path is known
FailureWords(p) ==
    CASE p = "EXIT-NONZERO" -> " Failed to install/upgrade '"
      [] p = "IMPORT-FAIL"  -> " Installation succeeded, but failed to import '"
      [] p = "TIMEOUT"      -> " Timeout ("
      [] p = "EXCEPTION"    -> " Unexpected error while installing/upgrading '"

----------------------------------------------------------------------------
(* Properties *)

\* C1: an ended installer call returned true exactly when the install child
\* exited with code zero and the import check succeeded, and returned false
\* in every other case.
C1_TrueIffExitZeroAndImportable ==
    CallDone =>
        /\ ret \in {"true", "false"}
        /\ ret = "true" <=> /\ installOutcome = "exited"
                            /\ proc.returncode = 0
                            /\ importOutcome = "ok"

\* C2: on each of the four failure paths the error channel receives the
\* replay of the buffer, then the direct message of that path, and the call
\* returns false; no fatal message of the call is written before its replay.
C2_ReplayThenReportThenFalse ==
    /\ lastOp = "install" =>
          \A i \in 1..Len(ErrSince) :
              IsFatal(ErrSince[i]) => i > 1 /\ ErrSince[i - 1] = Last(FooterLines)
    /\ (CallDone /\ path \in FailurePaths) =>
          LET tail  == ErrSince
              fatal == IF path = "EXCEPTION" THEN Len(tail) - 1 ELSE Len(tail)
              block == Len(messages) + Len(HeaderLines) + Len(FooterLines)
          IN  /\ ret = "false"
              /\ fatal > block
              /\ SubSeq(tail, fatal - block, fatal - 1) = ReplayOf(messages)
              /\ IsFatal(tail[fatal])
              /\ tail[fatal][2] = FailureWords(path)
              /\ \A i \in 1..(fatal - 1) : ~IsFatal(tail[i])

C2_Witness ==
    /\ CallDone
    /\ path = "IMPORT-FAIL"
    /\ ret = "false"
    /\ pre.messages /= <<>>

\* C3: a self-upgrade child that fails does not stop the call: the main
\* install is run all the same.
C3_SelfUpgradeIsNoGate ==
    upgradeOutcome \in {"nonzero", "oserror"} =>
        pc = "install" \/ installOutcome /= "none"

\* C4: no installer call ends by an exception that reaches the caller.
C4_NeverRaises == ret /= "raised"

\* C5: the buffer is the sequence of the texts of all emit() calls so far, in
\* call order, and no step removes or reorders an entry.
C5_BufferIsEmitHistory ==
    /\ messages = emitted
    /\ [][IsPrefix(messages, messages') /\ messages' = emitted']_vars

C5_Witness ==
    /\ CallDone
    /\ prevOp = "replay"
    /\ Len(messages) >= 4
    /\ \E i \in 1..Len(stderr) : stderr[i] = ErrLine(FmtStderr(proc.stderr))

\* C6: a replay() on a non-empty buffer writes to the error channel one header
\* block, every buffered message once in buffer order and one footer block,
\* and nothing to the primary channel.
C6_ReplayWritesOneBlock ==
    (lastOp = "replay" /\ pre.messages /= <<>>) =>
        /\ stderr = pre.stderr \o ReplayOf(pre.messages)
        /\ stdout = pre.stdout

C6_Witness ==
    /\ lastOp = "replay"
    /\ Len(pre.messages) >= 2
    /\ pre.messages[1] /= pre.messages[2]

\* C7: a replay() on an empty buffer writes nothing to either channel and
\* leaves the buffer empty.
C7_ReplayOfEmptyIsNoOp ==
    (lastOp = "replay" /\ pre.messages = <<>>) =>
        /\ stderr = pre.stderr
        /\ stdout = pre.stdout
        /\ messages = <<>>

C7_Witness == lastOp = "replay" /\ pre.messages = <<>>

\* C8: two replay() calls in a row write the same complete block twice and
\* leave the buffer as it was.
C8_ReplayTwice ==
    (lastOp = "replay" /\ prevOp = "replay") =>
        LET block == IF messages = <<>> THEN <<>> ELSE ReplayOf(messages)
        IN  /\ messages = pre.messages
            /\ messages = emitted
            /\ stderr = pre.stderr \o block
            /\ Len(pre.stderr) >= Len(block)
            /\ SubSeq(pre.stderr, Len(pre.stderr) - Len(block) + 1,
                      Len(pre.stderr)) = block

C8_Witness ==
    /\ lastOp = "replay"
    /\ prevOp = "replay"
    /\ Len(messages) >= 2

\* C9: emit() never fails its caller: the text is appended to the buffer, one
\* line is written to the destination stream, and the call returns.
C9_EmitNeverRaises ==
    lastOp = "emit" =>
        /\ messages = Append(pre.messages, Last(emitted))
        /\ ~emitRaised
        /\ Len(stdout) + Len(stderr) = Len(pre.stdout) + Len(pre.stderr) + 1

\* C10: after a timeout of the install child the call has returned false and
\* the error channel has received the replay of every message buffered before
\* the timeout, then a direct message with the timeout value and the package
\* name.
C10_TimeoutReplayThenDuration ==
    (CallDone /\ path = "TIMEOUT") =>
        LET before == pre.messages
                        \o <<FmtAttempt(package_name, import_name)>>
            direct == Last(stderr)
        IN  /\ ret = "false"
            /\ stderr = pre.stderr \o ReplayOf(before) \o <<direct>>
            /\ IsFatal(direct)
            /\ Contains(direct, <<ToString(request.timeout_sec)>>)
            /\ Contains(direct, BackslashReplace(request.package_name))

C10_Witness ==
    /\ CallDone
    /\ path = "TIMEOUT"
    /\ pre.messages /= <<>>
    /\ request.timeout_sec /= DefaultTimeout

\* how often x was written in the writes ws
Count(ws, x) == Cardinality({i \in 1..Len(ws) : ws[i] = x})

CountFatal(ws) == Cardinality({i \in 1..Len(ws) : IsFatal(ws[i])})

IsTraceback(write) == write[1] = "Traceback (most recent call last):"

\* C11: a request without a load name whose install child exits non-zero
\* with empty stdout and non-empty stderr: the load name is the package name,
\* false is returned, the replay block holds the attempt line, the exit-code
\* line and the stderr line in this order and no stdout line, and the last
\* write to the error channel is the direct message naming the package.
C11_FailingInstallWithoutLoadName ==
    ( /\ CallDone
      /\ request.import_name = NoName
      /\ installOutcome = "exited"
      /\ proc.returncode /= 0
      /\ proc.stdout = <<>>
      /\ proc.stderr /= <<>> ) =>
        LET pkg   == request.package_name
            lines == << FmtAttempt(pkg, pkg),
                        FmtReturnCode(proc.returncode),
                        FmtStderr(proc.stderr) >>
        IN  /\ import_name = pkg
            /\ ret = "false"
            /\ messages = pre.messages \o lines
            /\ \A i \in 1..Len(messages) : messages[i][1] /= "[PIP][stdout]"
            /\ ErrSince = <<ErrLine(FmtStderr(proc.stderr))>>
                            \o ReplayOf(pre.messages \o lines)
                            \o <<ErrLine(FmtInstallFail(pkg))>>
            /\ Last(stderr) = ErrLine(FmtInstallFail(pkg))

C11_Witness ==
    /\ CallDone
    /\ request.import_name = NoName
    /\ installOutcome = "exited"
    /\ proc.returncode = 1
    /\ proc.stdout = <<>>
    /\ proc.stderr /= <<>>
    /\ ret = "false"

\* C12: the direct failure message and the stack trace of a failed call are
\* not buffered: no buffer entry is one of them, and a replay() made by the
\* script after a failed call writes none of them.
C12_FatalReportsAreNotBuffered ==
    /\ \A i \in 1..Len(messages) :
          ~IsFatal(messages[i]) /\ ~IsTraceback(messages[i])
    /\ (CallDone /\ ret = "false") =>
          /\ CountFatal(ErrSince) = 1
          /\ messages = emitted
    /\ lastOp = "replay" =>
          \A i \in 1..Len(ErrSince) :
              ~IsFatal(ErrSince[i]) /\ ~IsTraceback(ErrSince[i])

C12_Witness ==
    /\ lastOp = "replay"
    /\ prevOp = "install"
    /\ ret = "false"
    /\ path = "EXCEPTION"
    /\ Len(ErrSince) > 0

\* C13: every installer call that starts comes to its end.
C13_EveryCallReturns == (pc /= "idle") ~> (pc = "idle")

\* C14: for every outcome of loading the module the import check returns a
\* boolean, true exactly when the load completed.
C14_ImportCheckNeverRaises ==
    importOutcome /= "none" =>
        /\ is_package_installed(importOutcome) \in {"True", "False"}
        /\ is_package_installed(importOutcome) = "True" <=> importOutcome = "ok"

\* C16: an ended call took exactly one of the five terminal paths; a call
\* that returned false made one replay and wrote one direct failure message,
\* a call that returned true made no replay and wrote no such message.
C16_OneTerminalPath ==
    CallDone =>
        /\ path \in {"IMPORT-OK", "IMPORT-FAIL", "EXIT-NONZERO", "TIMEOUT",
                     "EXCEPTION"}
        /\ ret = "true" <=> path = "IMPORT-OK"
        /\ ret = "false" <=> path \in FailurePaths
        /\ ret = "false" =>
              /\ Count(ErrSince, Last(FooterLines)) = 1
              /\ CountFatal(ErrSince) = 1
        /\ ret = "true" =>
              /\ Count(ErrSince, Last(FooterLines)) = 0
              /\ CountFatal(ErrSince) = 0

\* C19: a message emitted with destination error is on the error channel
\* once from the emit and once more inside the block of a later replay; the
\* captured-stderr line of a failed install is there once before the replay
\* header and once inside the replay block.
C19_ErrorMessagesAppearTwice ==
    /\ (lastOp = "replay" /\ pre.messages /= <<>>) =>
          \A i \in 1..Len(pre.messages) :
              dests[i] =>
                  /\ \E j \in 1..Len(pre.stderr) :
                        pre.stderr[j] = ErrLine(pre.messages[i])
                  /\ ErrSince[Len(HeaderLines) + i] = ErrLine(pre.messages[i])
    /\ (CallDone /\ path = "EXIT-NONZERO" /\ proc.stderr /= <<>>) =>
          LET line == ErrLine(FmtStderr(proc.stderr))
          IN  /\ ErrSince[1] = line
              /\ SubSeq(ErrSince, 2, 1 + Len(HeaderLines)) = HeaderLines
              /\ ErrSince[1 + Len(HeaderLines) + Len(messages)] = line
              /\ Count(ErrSince, line) = 2

C19_Witness ==
    /\ CallDone
    /\ path = "EXIT-NONZERO"
    /\ proc.stderr /= <<>>
    /\ prevOp = "replay"
    /\ \E i \in 1..Len(pre.messages) : dests[i]

\* the environment the claim describes for the child
ProxiedEnv(environ, proxy) ==
    [n \in {"PATH", "HTTP_PROXY", "HTTPS_PROXY"} |->
        IF proxy /= "" /\ n \in {"HTTP_PROXY", "HTTPS_PROXY"}
        THEN proxy ELSE environ[n]]

\* C17: the main install child gets the parent environment with HTTP_PROXY
\* and HTTPS_PROXY set to the proxy URL when that is not empty, and the parent
\* environment as it is otherwise; no step changes os.environ or PROXY_URL.
C17_ChildEnvironment ==
    [][ /\ os_environ' = os_environ
        /\ PROXY_URL' = PROXY_URL
        /\ installOutcome' /= "none" =>
              /\ child_env' = ProxiedEnv(os_environ, PROXY_URL)
              /\ (PROXY_URL = "" => child_env' = os_environ) ]_vars

C17_Witness ==
    /\ installOutcome = "exited"
    /\ PROXY_URL /= ""
    /\ os_environ.HTTP_PROXY /= Unset
    /\ child_env.HTTP_PROXY = PROXY_URL
    /\ child_env.HTTPS_PROXY = PROXY_URL

\* the first TruncLimit characters of a captured text, all of it when it has
\* no more
Logged(captured) ==
    [i \in 1..(IF Len(captured) > TruncLimit THEN TruncLimit ELSE Len(captured))
        |-> captured[i]]

\* no write of ws holds more of the captured text than its logged part
NeverInFull(ws, captured) ==
    Len(captured) > TruncLimit =>
        \A i \in 1..Len(ws) :
            ~Contains(ws[i], SubSeq(captured, 1, TruncLimit + 1))

\* C15: the captured stdout and stderr of the install child are logged as
\* their first 4000 characters when longer and unchanged when not longer; no
\* buffer entry and no stream write of the call holds the captured text
\* beyond that prefix.
C15_TruncatedToBound ==
    (lastOp = "install" /\ installOutcome = "exited" /\ pc /= "log") =>
        LET k    == Len(pre.messages) + 2
            out  == IF proc.stdout /= <<>>
                    THEN << <<"[PIP][stdout]", NL>> \o Logged(proc.stdout)
                               \o <<NL, "--- end stdout ---">> >>
                    ELSE <<>>
            err  == IF proc.stderr /= <<>>
                    THEN << <<"[PIP][stderr]", NL>> \o Logged(proc.stderr)
                               \o <<NL, "--- end stderr ---">> >>
                    ELSE <<>>
        IN  /\ Len(messages) >= k + Len(out) + Len(err)
            /\ SubSeq(messages, k + 1, k + Len(out) + Len(err)) = out \o err
            /\ Len(out) = 1 => Len(out[1]) <= TruncLimit + 4
            /\ Len(err) = 1 => Len(err[1]) <= TruncLimit + 4
            /\ NeverInFull(messages, proc.stdout)
            /\ NeverInFull(messages, proc.stderr)
            /\ NeverInFull(stdout, proc.stdout)
            /\ NeverInFull(stdout, proc.stderr)
            /\ NeverInFull(stderr, proc.stdout)
            /\ NeverInFull(stderr, proc.stderr)

C15_Witness ==
    /\ CallDone
    /\ installOutcome = "exited"
    /\ Len(proc.stdout) = TruncLimit + 1
    /\ Len(proc.stderr) = TruncLimit + 2
    /\ path = "EXIT-NONZERO"

----------------------------------------------------------------------------
(* C18: when print calls run concurrently with flush_to_stderr, what the
   error channel received from the first write of the header to the footer is
   one header block, the buffer as it was at one single moment of the
   flush, in order, and one footer block; no line of a concurrent print
   lies inside it. *)

\* what the error channel received from the header to the footer of the flush
FlushedBlock == SubSeq(stderr, threads.flush.start + 1, threads.flush.stop)

C18_ReplayIsOneSnapshot ==
    (threads.flush.pc = "done" /\ threads.flush.stop > threads.flush.start) =>
        \E buf \in threads.seen : FlushedBlock = ReplayOf(buf)

====
